---- MODULE Spec2Model ----
(***************************************************************************)
(* The "query run-all" command of hr_cli.py (run_all_queries): it opens    *)
(* the store, reads queries.sql, splits the text into statements line by   *)
(* line, executes every statement on one cursor, records one outcome per   *)
(* statement, prints a summary, optionally writes a report file and closes *)
(* the connection.                                                         *)
(*                                                                         *)
(* Text is modelled as sequences of one-character strings.  The store, the *)
(* file system and the command line are the environment: their answers are *)
(* chosen nondeterministically where the code asks for them.               *)
(***************************************************************************)
EXTENDS Integers, Sequences, FiniteSets, TLC

VARIABLES
    verbose,        \* the --verbose flag
    pc,             \* position in run_all_queries
    conn,           \* "none" | "open" | "closed": the sqlite3 connection
    store_log,      \* operations the store has seen on the connection, in order
    content,        \* text of queries.sql
    lines,          \* content.split('\n'), the list the splitter iterates over
    idx,            \* 1-based index of the next line of lines
    in_comment,     \* splitter flag
    current_query,  \* splitter buffer
    queries,        \* statements found by the splitter
    i,              \* enumerate(queries, 1) position
    all_results,    \* recorded outcomes
    console,        \* lines echoed with click.echo
    summary,        \* [successful, failed, total] as printed
    output_file,    \* the --output-file option: "unread" until line 599 reads it
    file            \* [written, lines]: the report file

vars == <<verbose, pc, conn, store_log, content, lines, idx, in_comment, current_query,
          queries, i, all_results, console, summary, output_file, file>>

(***************************************************************************)
(* Bounds and program constants                                            *)
(***************************************************************************)
MaxLines == 3

\* the lines of the output file that a failing write leaves on disk, at most
MaxPartial == 2

TruncLen == 100

PreviewLimit == 5

PreviewRows == 3

(***************************************************************************)
(* Text helpers                                                            *)
(***************************************************************************)
NL == "\n"

\* the characters str.strip() removes: those for which str.isspace() holds.
\* A character that a string of this module cannot hold is written as its
\* code point, "U+000B" for the vertical tab
Whitespace ==
    {" ", "\t", NL, "U+000B", "\f", "\r",
     "U+001C", "U+001D", "U+001E", "U+001F", "U+0085", "U+00A0", "U+1680",
     "U+2000", "U+2001", "U+2002", "U+2003", "U+2004", "U+2005", "U+2006",
     "U+2007", "U+2008", "U+2009", "U+200A", "U+2028", "U+2029", "U+202F",
     "U+205F", "U+3000"}

RECURSIVE LStrip(_)
LStrip(s) == IF s # <<>> /\ Head(s) \in Whitespace THEN LStrip(Tail(s)) ELSE s

RECURSIVE RStrip(_)
RStrip(s) ==
    IF s # <<>> /\ s[Len(s)] \in Whitespace THEN RStrip(SubSeq(s, 1, Len(s) - 1)) ELSE s

Strip(s) == RStrip(LStrip(s))

StartsWith(s, p) == Len(s) >= Len(p) /\ SubSeq(s, 1, Len(p)) = p

EndsWith(s, p) == Len(s) >= Len(p) /\ SubSeq(s, Len(s) - Len(p) + 1, Len(s)) = p

\* content.split('\n')
RECURSIVE SplitNL(_)
SplitNL(s) ==
    IF \A k \in 1..Len(s) : s[k] # NL
    THEN <<s>>
    ELSE LET k == CHOOSE k \in 1..Len(s) :
                      s[k] = NL /\ \A j \in 1..(k - 1) : s[j] # NL
         IN  <<SubSeq(s, 1, k - 1)>> \o SplitNL(SubSeq(s, k + 1, Len(s)))

\* the text of a file whose lines are ls
RECURSIVE JoinNL(_)
JoinNL(ls) ==
    IF ls = <<>> THEN <<>>
    ELSE IF Len(ls) = 1 THEN ls[1]
    ELSE ls[1] \o <<NL>> \o JoinNL(Tail(ls))

\* query[:100] + '...' if len(query) > 100 else query
Truncate(q) ==
    IF Len(q) > TruncLen THEN SubSeq(q, 1, TruncLen) \o <<".", ".", ".">> ELSE q

(***************************************************************************)
(* Inputs                                                                  *)
(***************************************************************************)
\* lines of the scripts that are executed
RunLines ==
    { <<"a", ";">>,
      <<"b">>,
      <<"-", "-", "c", ";">>,
      <<"/", "*">>,
      <<"*", "/">> }

\* lines of the scripts that are only split
SplitterLines ==
    RunLines \cup
    { <<>>,
      <<" ", "\t", "\f">>,
      <<"\f", "b", ";", "U+00A0">>,
      <<" ", "b", ";", " ">>,
      <<";">>,
      <<"a", ";", "b">>,
      <<"/", "*", "c", "*", "/">>,
      <<"/", "*", "c", ";">>,
      <<"c", ";", "*", "/">>,
      <<" ", "-", "-">>,
      <<"-", "-", "*", "/">> }

ScriptsOf(vocabulary) ==
    { JoinNL(ls) : ls \in UNION { [1..n -> vocabulary] : n \in 0..MaxLines } }

RunScripts == ScriptsOf(RunLines)

SplitterScripts == ScriptsOf(SplitterLines)

(***************************************************************************)
(* Statement splitter, hr_cli.py lines 471-500                             *)
(***************************************************************************)
SkipLineNoDash(line) == line = <<>>

\* line 479: if not line or line.startswith('--')
SkipLine(line) == line = <<>> \/ StartsWith(line, <<"-", "-">>)

\* a comment that is closed on its own line opens nothing
OpensCommentUnlessClosed(line) ==
    StartsWith(line, <<"/", "*">>) /\ ~EndsWith(line, <<"*", "/">>)

\* line 483
OpensComment(line) == StartsWith(line, <<"/", "*">>)

\* line 486
ClosesComment(line) == EndsWith(line, <<"*", "/">>)

TerminatesAnywhere(line) == \E k \in 1..Len(line) : line[k] = ";"

\* line 495
Terminates(line) == EndsWith(line, <<";">>)

InsideCommentNever(st) == FALSE

\* line 489: if in_comment: continue
InsideComment(st) == st.in_comment

\* the line replaces what the buffer held
AppendLineReplace(buf, line) == line \o <<" ">>

\* line 492: current_query += line + " "
AppendLine(buf, line) == buf \o line \o <<" ">>

\* one iteration of the loop of lines 475-497 on the raw line, from the
\* splitter state st = [in_comment, current_query, queries]
SplitStep(st, raw) ==
    LET line == Strip(raw) IN
    IF SkipLine(line) THEN st
    ELSE IF OpensComment(line) THEN [st EXCEPT !.in_comment = TRUE]
    ELSE IF ClosesComment(line) THEN [st EXCEPT !.in_comment = FALSE]
    ELSE IF InsideComment(st) THEN st
    ELSE LET buf == AppendLine(st.current_query, line) IN
         IF Terminates(line)
         THEN [st EXCEPT !.queries = Append(@, Strip(buf)), !.current_query = <<>>]
         ELSE [st EXCEPT !.current_query = buf]

FlushAlways(qs, buf) == Append(qs, Strip(buf))

FlushNever(qs, buf) == qs

\* lines 499-500: the remaining buffer
Flush(qs, buf) == IF Strip(buf) # <<>> THEN Append(qs, Strip(buf)) ELSE qs

SplitState == [in_comment |-> in_comment, current_query |-> current_query,
               queries |-> queries]

(***************************************************************************)
(* Console lines                                                           *)
(***************************************************************************)
Echo(tag, n, text) == [tag |-> tag, n |-> n, text |-> text]

(***************************************************************************)
(* Initial state: the command has been invoked                             *)
(***************************************************************************)
NoSummary == [successful |-> 0, failed |-> 0, total |-> 0]

NoFile == [written |-> FALSE, lines |-> <<>>]

Init ==
    /\ verbose \in BOOLEAN
    /\ pc = "start"
    /\ conn = "none"
    /\ store_log = <<>>
    /\ content = <<>>
    /\ lines = <<>>
    /\ idx = 1
    /\ in_comment = FALSE
    /\ current_query = <<>>
    /\ queries = <<>>
    /\ i = 1
    /\ all_results = <<>>
    /\ console = <<>>
    /\ summary = NoSummary
    /\ output_file = "unread"
    /\ file = NoFile

(***************************************************************************)
(* The store and the recorded outcomes                                     *)
(***************************************************************************)
Op(op, sql, res) == [op |-> op, sql |-> sql, res |-> res]

Cols == <<"c1", "c2">>

\* what cursor.execute(query) can do: return, raise sqlite3.OperationalError,
\* or raise another exception (IntegrityError, ProgrammingError, Warning, ...)
ExecOutcomes ==
    { [kind |-> "ok", msg |-> ""],
      [kind |-> "OperationalError", msg |-> "syntax error"],
      [kind |-> "Exception", msg |-> "constraint failed"] }

RowCounts == {0, 1, PreviewLimit, PreviewLimit + 1}

\* what cursor.fetchall() can do after a successful execute: return the rows
\* of a result set (description names its columns), return [] for a statement
\* without result set (description is None), or raise
FetchOutcomes ==
    { [kind |-> "rows", rows |-> [k \in 1..n |-> k], description |-> Cols, msg |-> ""] :
          n \in RowCounts }
    \cup
    { [kind |-> "rows", rows |-> <<>>, description |-> <<>>, msg |-> ""],
      [kind |-> "OperationalError", rows |-> <<>>, description |-> <<>>,
       msg |-> "nothing to fetch"],
      [kind |-> "Exception", rows |-> <<>>, description |-> <<>>,
       msg |-> "disk image malformed"] }

RowsInt(n) == [tag |-> "int", n |-> n]

RowsNA == [tag |-> "str", s |-> "N/A"]

RowsERROR == [tag |-> "str", s |-> "ERROR"]

ResultZeroBased(num, query, rows, columns) ==
    [query_num |-> num - 1, query |-> Truncate(query), rows |-> rows,
     columns |-> columns]

\* the dict appended at lines 541-564
Result(num, query, rows, columns) ==
    [query_num |-> num, query |-> Truncate(query), rows |-> rows, columns |-> columns]

\* the dict appended at lines 568-574 and 577-583
ErrorResult(num, query, msg) ==
    [query_num |-> num, query |-> Truncate(query), rows |-> RowsERROR,
     columns |-> <<>>, error |-> msg]

IsErrorOrNA(r) == r.rows \in {RowsERROR, RowsNA}

\* lines 591, 592, 608: r.get('rows') == 'ERROR'
IsError(r) == r.rows = RowsERROR

\* line 510: if not query.strip(): continue
EmptyQuery(query) == Strip(query) = <<>>

\* the loop is left at the first failure
AfterErrorAbort(k) == [pc |-> "loop", i |-> Len(queries) + 1]

\* the failed statement is taken again
AfterErrorRetry(k) == [pc |-> "loop", i |-> k]

\* the exception leaves the command
AfterErrorPropagate(k) == [pc |-> "returned", i |-> k]

\* lines 566-585: both except clauses record the failure and fall through to
\* the end of the loop body, so the for loop takes the next statement
AfterError(k) == [pc |-> "loop", i |-> k + 1]

\* a result of exactly PreviewLimit rows is cut as well
PreviewOffByOne(results) ==
    IF Len(results) < PreviewLimit THEN results ELSE SubSeq(results, 1, PreviewRows)

\* lines 531-537: the rows shown in verbose mode
Preview(results) ==
    IF Len(results) <= PreviewLimit THEN results ELSE SubSeq(results, 1, PreviewRows)

\* in verbose mode the rows shown are the rows counted
FetchRecordPreviewCount(num, query, f) ==
    IF f.kind = "rows"
    THEN IF f.rows # <<>>
         THEN Result(num, query,
                     RowsInt(Len(IF verbose THEN Preview(f.rows) ELSE f.rows)),
                     f.description)
         ELSE Result(num, query, RowsInt(0), <<>>)
    ELSE IF f.kind = "OperationalError"
    THEN Result(num, query, RowsNA, <<>>)
    ELSE ErrorResult(num, query, f.msg)

\* "nothing to fetch" is recorded as a failure
FetchRecordNAFails(num, query, f) ==
    IF f.kind = "rows"
    THEN IF f.rows # <<>>
         THEN Result(num, query, RowsInt(Len(f.rows)), f.description)
         ELSE Result(num, query, RowsInt(0), <<>>)
    ELSE ErrorResult(num, query, f.msg)

\* an empty result is recorded like "nothing to fetch"
FetchRecordEmptyNA(num, query, f) ==
    IF f.kind = "rows" /\ f.rows # <<>>
    THEN Result(num, query, RowsInt(Len(f.rows)), f.description)
    ELSE IF f.kind \in {"rows", "OperationalError"}
    THEN Result(num, query, RowsNA, <<>>)
    ELSE ErrorResult(num, query, f.msg)

\* lines 522-583: what fetching records for statement num, given the answer f
\* of cursor.fetchall()
FetchRecord(num, query, f) ==
    IF f.kind = "rows"
    THEN IF f.rows # <<>>
         THEN Result(num, query, RowsInt(Len(f.rows)), f.description)
         ELSE Result(num, query, RowsInt(0), <<>>)
    ELSE IF f.kind = "OperationalError"
    THEN Result(num, query, RowsNA, <<>>)
    ELSE ErrorResult(num, query, f.msg)

\* lines 528-583: what fetching echoes
FetchEcho(f) ==
    IF f.kind = "rows"
    THEN IF f.rows # <<>>
         THEN IF verbose
              THEN <<Echo("results", Len(f.rows), <<>>),
                     [tag |-> "table", rows |-> Preview(f.rows),
                      headers |-> f.description]>>
                   \o (IF Len(f.rows) <= PreviewLimit THEN <<>>
                       ELSE <<Echo("more", Len(f.rows) - PreviewRows, <<>>)>>)
              ELSE <<Echo("rows returned", Len(f.rows), <<>>)>>
         ELSE <<Echo("ok (no results)", 0, <<>>)>>
    ELSE IF f.kind = "OperationalError"
    THEN <<Echo("ok", 0, <<>>)>>
    ELSE <<[tag |-> "unexpected error", msg |-> f.msg]>>

\* lines 567 and 576
ExecErrorEcho(e) ==
    IF e.kind = "OperationalError"
    THEN [tag |-> "error", msg |-> e.msg]
    ELSE [tag |-> "unexpected error", msg |-> e.msg]

Blank == Echo("", 0, <<>>)

\* lines 591-596
SummaryOf(results, qs) ==
    [successful |-> Cardinality({k \in DOMAIN results : ~IsError(results[k])}),
     failed |-> Cardinality({k \in DOMAIN results : IsError(results[k])}),
     total |-> Len(qs)]

\* every block is marked SUCCESS and gives row information
BlockSuccessOnly(r) ==
    <<[tag |-> "Query", n |-> r.query_num],
      [tag |-> "SQL", text |-> r.query],
      [tag |-> "Status", text |-> "SUCCESS"],
      [tag |-> "Results", rows |-> r.rows],
      [tag |-> "rule"]>>

\* lines 606-615: the block written for one result
Block(r) ==
    <<[tag |-> "Query", n |-> r.query_num],
      [tag |-> "SQL", text |-> r.query],
      [tag |-> "Status", text |-> IF ~IsError(r) THEN "SUCCESS" ELSE "FAILED"]>>
    \o (IF ~IsError(r)
        THEN <<[tag |-> "Results", rows |-> r.rows]>>
             \o (IF r.columns # <<>> THEN <<[tag |-> "Columns", cols |-> r.columns]>>
                 ELSE <<>>)
        ELSE <<[tag |-> "Error",
                msg |-> IF "error" \in DOMAIN r THEN r.error ELSE "Unknown error"]>>)
    \o <<[tag |-> "rule"]>>

RECURSIVE Blocks(_)
Blocks(results) ==
    IF results = <<>> THEN <<>> ELSE Block(Head(results)) \o Blocks(Tail(results))

\* lines 602-615
FileLines(results) == <<[tag |-> "header"], [tag |-> "rule"]>> \o Blocks(results)

(***************************************************************************)
(* run_all_queries, one action per step                                    *)
(***************************************************************************)
splitter == <<content, lines, idx, in_comment, current_query, queries>>

ConnectPcNoReturn(db_exists, connects) == "check_file"

\* get_db_connection, lines 20-25, called at line 451: where the command
\* goes on.  When hr_database.db exists and sqlite3.connect raises (a
\* directory, a file that cannot be opened), nothing catches the exception
\* and it ends the command
ConnectPc(db_exists, connects) ==
    IF ~db_exists THEN "returned"
    ELSE IF connects THEN "check_file"
    ELSE "raised"

\* lines 455-457
CheckFilePc(sql_exists) == IF sql_exists THEN "read" ELSE "returned"

\* lines 451-453 with get_db_connection (lines 20-25)
Connect ==
    /\ pc = "start"
    /\ \E db_exists \in BOOLEAN, connects \in BOOLEAN :
          /\ pc' = ConnectPc(db_exists, connects)
          /\ IF ~db_exists
             THEN /\ conn' = conn
                  /\ store_log' = store_log
                  /\ console' = Append(console, Echo("database not found", 0, <<>>))
             ELSE IF connects
             THEN /\ conn' = "open"
                  /\ store_log' = Append(store_log, Op("connect", <<>>, "ok"))
                  /\ console' = console
             ELSE /\ conn' = conn
                  /\ store_log' =
                        Append(store_log, Op("connect", <<>>, "raised OperationalError"))
                  /\ console' = console
    /\ UNCHANGED <<verbose, splitter, i, all_results, summary, output_file, file>>

\* lines 455-460
CheckFile ==
    /\ pc = "check_file"
    /\ \E sql_exists \in BOOLEAN :
          /\ pc' = CheckFilePc(sql_exists)
          /\ console' =
                IF sql_exists
                THEN console \o <<Echo("executing all queries", 0, <<>>),
                                  Echo("rule", 0, <<>>)>>
                ELSE Append(console, Echo("queries.sql not found", 0, <<>>))
    /\ UNCHANGED <<verbose, conn, store_log, splitter, i, all_results, summary,
                   output_file, file>>

\* lines 463-473
ReadFile ==
    /\ pc = "read"
    /\ \/ /\ pc' = "returned"
          /\ console' = Append(console, Echo("error reading queries.sql", 0, <<>>))
          /\ UNCHANGED splitter
       \/ \E c \in RunScripts :
             /\ content' = c
             /\ lines' = SplitNL(c)
             /\ idx' = 1
             /\ queries' = <<>>
             /\ current_query' = <<>>
             /\ in_comment' = FALSE
             /\ pc' = "split"
             /\ console' = console
    /\ UNCHANGED <<verbose, conn, store_log, i, all_results, summary, output_file, file>>

\* lines 475-497: one line of the script
SplitLine ==
    /\ pc = "split"
    /\ idx <= Len(lines)
    /\ LET st == SplitStep(SplitState, lines[idx]) IN
          /\ in_comment' = st.in_comment
          /\ current_query' = st.current_query
          /\ queries' = st.queries
    /\ idx' = idx + 1
    /\ UNCHANGED <<verbose, pc, conn, store_log, content, lines, i, all_results, console,
                   summary, output_file, file>>

\* lines 499-507: the remaining buffer, the count, the cursor
SplitFinish ==
    /\ pc = "split"
    /\ idx > Len(lines)
    /\ queries' = Flush(queries, current_query)
    /\ console' = console \o <<Echo("found", Len(queries'), <<>>), Blank>>
    /\ all_results' = <<>>
    /\ store_log' = Append(store_log, Op("cursor", <<>>, "ok"))
    /\ i' = 1
    /\ pc' = "loop"
    /\ UNCHANGED <<verbose, conn, content, lines, idx, in_comment, current_query, summary,
                   output_file, file>>

\* lines 514-516
QueryEcho(num, query) ==
    <<Echo("query", num, <<>>)>>
    \o (IF verbose THEN <<Echo("sql", 0, Truncate(query))>> ELSE <<>>)

\* lines 509-519, and lines 566-585 when cursor.execute raises
Execute ==
    /\ pc = "loop"
    /\ i <= Len(queries)
    /\ LET query == queries[i] IN
       IF EmptyQuery(query)
       THEN /\ i' = i + 1
            /\ UNCHANGED <<pc, store_log, all_results, console>>
       ELSE \E e \in ExecOutcomes :
              /\ store_log' = Append(store_log, Op("execute", query, e))
              /\ IF e.kind = "ok"
                 THEN /\ pc' = "fetch"
                      /\ i' = i
                      /\ all_results' = all_results
                      /\ console' = console \o QueryEcho(i, query)
                 ELSE /\ pc' = AfterError(i).pc
                      /\ i' = AfterError(i).i
                      /\ all_results' = Append(all_results, ErrorResult(i, query, e.msg))
                      /\ console' = console \o QueryEcho(i, query)
                                        \o <<ExecErrorEcho(e), Blank>>
    /\ UNCHANGED <<verbose, conn, splitter, summary, output_file, file>>

\* lines 521-585 after cursor.execute returned
Fetch ==
    /\ pc = "fetch"
    /\ \E f \in FetchOutcomes :
          /\ store_log' = Append(store_log, Op("fetchall", queries[i], f))
          /\ all_results' = Append(all_results, FetchRecord(i, queries[i], f))
          /\ console' = console \o FetchEcho(f) \o <<Blank>>
          /\ pc' = IF f.kind = "Exception" THEN AfterError(i).pc ELSE "loop"
          /\ i' = IF f.kind = "Exception" THEN AfterError(i).i ELSE i + 1
    /\ UNCHANGED <<verbose, conn, splitter, summary, output_file, file>>

\* lines 587-596
Summary ==
    /\ pc = "loop"
    /\ i > Len(queries)
    /\ summary' = SummaryOf(all_results, queries)
    /\ console' = console \o <<Echo("execution summary", 0, <<>>),
                               Echo("rule", 0, <<>>),
                               Echo("successful", summary'.successful, <<>>),
                               Echo("failed", summary'.failed, <<>>),
                               Echo("total", summary'.total, <<>>)>>
    /\ pc' = "save"
    /\ UNCHANGED <<verbose, conn, store_log, splitter, i, all_results, output_file, file>>

\* the exception of a failed write leaves the command
AfterSavePropagate(o) == IF o = "bad path" THEN "returned" ELSE "close"

\* lines 598-621: with or without output file, and whether or not the write
\* raised (line 618 catches it), the command goes on to conn.close()
AfterSave(o) == "close"

\* lines 600-618: what a write that raises can leave behind: no file when
\* open() raised, otherwise the file that open() created, holding the lines
\* that reached it before a write or the closing flush raised (here at
\* most MaxPartial of them)
FailedWrites(results) ==
    {NoFile} \cup
    { [written |-> TRUE, lines |-> SubSeq(FileLines(results), 1, n)] :
          n \in {m \in 0..MaxPartial : m <= Len(FileLines(results))} }

\* lines 598-619: no --output-file, a file that is written, or a write that
\* raises, at open() or later
Save ==
    /\ pc = "save"
    /\ \/ /\ output_file' = "none"
          /\ UNCHANGED <<file, console>>
       \/ /\ output_file' = "path"
          /\ file' = [written |-> TRUE, lines |-> FileLines(all_results)]
          /\ console' = Append(console, Echo("results saved", 0, <<>>))
       \/ /\ output_file' = "bad path"
          /\ file' \in FailedWrites(all_results)
          /\ console' = Append(console, Echo("error saving results", 0, <<>>))
    /\ pc' = AfterSave(output_file')
    /\ UNCHANGED <<verbose, conn, store_log, splitter, i, all_results, summary>>

\* the connection is committed before it is closed
CloseLogCommitting(log) ==
    log \o <<Op("commit", <<>>, "ok"), Op("close", <<>>, "ok")>>

\* line 621: conn.close() is the only call made on the connection after
\* the loop; no conn.commit() precedes it
CloseLog(log) == Append(log, Op("close", <<>>, "ok"))

\* line 621
Close ==
    /\ pc = "close"
    /\ conn' = "closed"
    /\ store_log' = CloseLog(store_log)
    /\ pc' = "returned"
    /\ UNCHANGED <<verbose, splitter, i, all_results, console, summary, output_file, file>>

Next ==
    \/ Connect
    \/ CheckFile
    \/ ReadFile
    \/ SplitLine
    \/ SplitFinish
    \/ Execute
    \/ Fetch
    \/ Summary
    \/ Save
    \/ Close

Spec == Init /\ [][Next]_vars

(***************************************************************************)
(* The splitter alone, on a wider set of scripts: the state right after    *)
(* queries.sql has been read                                               *)
(***************************************************************************)
SplitInit ==
    /\ verbose \in BOOLEAN
    /\ pc = "split"
    /\ conn = "open"
    /\ store_log = <<Op("connect", <<>>, "ok")>>
    /\ content \in SplitterScripts
    /\ lines = SplitNL(content)
    /\ idx = 1
    /\ in_comment = FALSE
    /\ current_query = <<>>
    /\ queries = <<>>
    /\ i = 1
    /\ all_results = <<>>
    /\ console = <<Echo("executing all queries", 0, <<>>), Echo("rule", 0, <<>>)>>
    /\ summary = NoSummary
    /\ output_file = "unread"
    /\ file = NoFile

SplitNext == SplitLine \/ SplitFinish

SplitSpec == SplitInit /\ [][SplitNext]_vars

(***************************************************************************)
(* What the store has seen, read back from its log                         *)
(***************************************************************************)
IsExecOp(o) == o.op = "execute"

ExecOps == SelectSeq(store_log, IsExecOp)

\* the statements submitted to the store, in submission order
Submitted == LET ops == ExecOps IN [k \in 1..Len(ops) |-> ops[k].sql]

\* position of the k-th submission in the log at or after position p
RECURSIVE NthExecFrom(_, _)
NthExecFrom(p, k) ==
    IF IsExecOp(store_log[p])
    THEN (IF k = 1 THEN p ELSE NthExecFrom(p + 1, k - 1))
    ELSE NthExecFrom(p + 1, k)

\* position in the log of the k-th submission
ExecPos(k) == NthExecFrom(1, k)

\* the operation logged at position p is followed by a fetch
FetchFollows(p) == p < Len(store_log) /\ store_log[p + 1].op = "fetchall"

HasFetch(k) == FetchFollows(ExecPos(k))

FetchAnswer(k) == store_log[ExecPos(k) + 1].res

\* the store has answered the k-th submission completely
Answered(k) == ExecOps[k].res.kind # "ok" \/ HasFetch(k)

\* the store reported an execution error for the k-th submission: the
\* execution raised, or the fetch raised something other than the
\* sqlite3.OperationalError that stands for "nothing to fetch"
StoreError(k) ==
    LET p == ExecPos(k) IN
    \/ store_log[p].res.kind # "ok"
    \/ FetchFollows(p) /\ store_log[p + 1].res.kind = "Exception"

\* the command is past its execution loop
PastLoop == pc \in {"save", "close"} \/ (pc = "returned" /\ conn = "closed")

FatalTags ==
    {"database not found", "queries.sql not found", "error reading queries.sql"}

FatalEchoes == {k \in DOMAIN console : console[k].tag \in FatalTags}

SummaryPrinted == \E k \in DOMAIN console : console[k].tag = "execution summary"

(***************************************************************************)
(* Claims                                                                  *)
(***************************************************************************)

\* C1: failure isolation.  Every submission that raised is recorded as a
\* failure at its own position, the loop then stands at the next statement,
\* and once the loop is over every statement of the splitter has been
\* submitted, whatever failed.
C1_FailureIsolation ==
    /\ \A k \in 1..Len(ExecOps) :
          ExecOps[k].res.kind # "ok" =>
              /\ k <= Len(all_results)
              /\ IsError(all_results[k])
              /\ all_results[k].error = ExecOps[k].res.msg
    /\ pc = "loop" => i = Len(ExecOps) + 1
    /\ PastLoop => Submitted = queries

C1_Witness ==
    /\ PastLoop
    /\ Len(queries) >= 2
    /\ ExecOps[1].res.kind # "ok"
    /\ Submitted = queries

\* C2: at the summary, successful + failed = total = the number of
\* statements the splitter found = the number of recorded outcomes.
C2_CountsAddUp ==
    PastLoop =>
        /\ summary.successful + summary.failed = summary.total
        /\ summary.total = Len(queries)
        /\ summary.successful + summary.failed = Len(all_results)

C2_Witness ==
    /\ pc = "save"
    /\ summary.total = 3
    /\ summary.failed >= 1
    /\ summary.successful >= 1

\* C3: statements are submitted in script order, one at a time and once
\* each: the submissions are always a prefix of the splitter's list, a new
\* submission is made only when every earlier one has its outcome recorded,
\* and after the loop all of them have been made.
C3_InOrderOnce ==
    LET sub == Submitted IN
    /\ Len(sub) <= Len(queries)
    /\ \A k \in 1..Len(sub) : k <= Len(queries) => sub[k] = queries[k]
    /\ pc = "loop" => Len(sub) = Len(all_results)
    /\ pc = "fetch" => Len(sub) = Len(all_results) + 1
    /\ PastLoop => Len(sub) = Len(queries)

C3_Witness ==
    /\ pc = "fetch"
    /\ i = 2
    /\ IsError(all_results[1])
    /\ queries[1] # queries[2]
    /\ Submitted = queries

\* the outcome the claim expects for the k-th statement, from the store's
\* answers to that statement alone
ExpectedOutcome(k) ==
    LET p == ExecPos(k)
        e == store_log[p].res
        f == store_log[p + 1].res
    IN IF e.kind # "ok"
       THEN [variant |-> "Failure", rows |-> 0, columns |-> <<>>, error |-> e.msg]
       ELSE IF f.kind = "Exception"
       THEN [variant |-> "Failure", rows |-> 0, columns |-> <<>>, error |-> f.msg]
       ELSE IF f.kind = "OperationalError"
       THEN [variant |-> "NoRows", rows |-> 0, columns |-> <<>>, error |-> ""]
       ELSE IF Len(f.rows) > 0
       THEN [variant |-> "Rows", rows |-> Len(f.rows), columns |-> f.description,
             error |-> ""]
       ELSE [variant |-> "Rows", rows |-> 0, columns |-> <<>>, error |-> ""]

\* the outcome a recorded result stands for
RecordedOutcome(r) ==
    IF r.rows.tag = "int"
    THEN [variant |-> "Rows", rows |-> r.rows.n, columns |-> r.columns, error |-> ""]
    ELSE IF r.rows.s = "N/A"
    THEN [variant |-> "NoRows", rows |-> 0, columns |-> r.columns, error |-> ""]
    ELSE [variant |-> "Failure", rows |-> 0, columns |-> r.columns,
          error |-> IF "error" \in DOMAIN r THEN r.error ELSE ""]

ThreeWithMiddleFailure ==
    /\ Len(queries) = 3
    /\ Len(ExecOps) = 3
    /\ ~StoreError(1)
    /\ StoreError(2)
    /\ ~StoreError(3)

\* C4: at the summary, failed is the number of statements for which the
\* store reported an execution error and successful the number of the
\* others; a failure between two valid statements gives 3 / 1 / 2; and each
\* recorded outcome is the one the store's answers to that statement alone
\* determine, so a failure changes nothing in the outcomes around it.
C4_CountsMatchStore ==
    /\ \A k \in 1..Len(all_results) :
          RecordedOutcome(all_results[k]) = ExpectedOutcome(k)
    /\ PastLoop =>
          LET n == Len(ExecOps)
              errors == {k \in 1..n : StoreError(k)}
          IN
          /\ summary.failed = Cardinality(errors)
          /\ summary.successful =
                Cardinality({k \in 1..Len(queries) : k \notin errors})
          /\ ThreeWithMiddleFailure =>
                summary = [successful |-> 2, failed |-> 1, total |-> 3]

C4_Witness ==
    /\ PastLoop
    /\ ThreeWithMiddleFailure
    /\ RecordedOutcome(all_results[1]).variant = "Rows"
    /\ RecordedOutcome(all_results[3]).variant = "NoRows"

\* C5: the recorded results hold one outcome per statement, in statement
\* order, numbered 1, 2, ... without gaps; inside the loop the statements
\* before the current one are recorded once each and no other; after the
\* loop every statement is.
C5_OneOutcomeEach ==
    /\ \A k \in 1..Len(all_results) :
          /\ all_results[k].query_num = k
          /\ k <= Len(queries)
          /\ all_results[k].query = Truncate(queries[k])
          /\ RecordedOutcome(all_results[k]).variant \in {"Rows", "NoRows", "Failure"}
    /\ pc \in {"loop", "fetch"} => Len(all_results) = i - 1
    /\ PastLoop => Len(all_results) = Len(queries)

C5_Witness ==
    /\ PastLoop
    /\ Len(all_results) = 3
    /\ {RecordedOutcome(all_results[k]).variant : k \in 1..3}
          = {"Rows", "NoRows", "Failure"}

\* the phases of the command in program order
Phase ==
    CASE pc = "start" -> 7
      [] pc = "check_file" -> 6
      [] pc = "read" -> 5
      [] pc = "split" -> 4
      [] pc \in {"loop", "fetch"} -> 3
      [] pc = "save" -> 2
      [] pc = "close" -> 1
      [] OTHER -> 0

\* inside a phase: the lines still to split, the statements still to run
StepsLeft ==
    CASE pc = "split" -> Len(lines) + 1 - idx
      [] pc = "loop" -> 2 * (Len(queries) + 1 - i)
      [] pc = "fetch" -> 2 * (Len(queries) + 1 - i) - 1
      [] OTHER -> 0

\* C6: once the connection and the script text are there, the command
\* terminates at the summary: every step brings the return nearer, a step
\* is possible as long as the command has not returned, and a command that
\* returns after reading the script has printed the summary with every
\* statement submitted and recorded.
C6_ReachesSummary ==
    /\ [][\/ Phase' < Phase
          \/ Phase' = Phase /\ StepsLeft' < StepsLeft /\ StepsLeft' >= 0]_vars
    /\ [](pc \notin {"returned", "raised"} => ENABLED Next)
    /\ []((pc = "returned" /\ FatalEchoes = {}) =>
            (/\ SummaryPrinted
             /\ Len(all_results) = Len(queries)
             /\ Len(Submitted) = Len(queries)))

C6_Witness ==
    /\ pc = "returned"
    /\ SummaryPrinted
    /\ Len(queries) >= 2
    /\ summary.failed = Len(queries)

\* C7: when the database file is absent, or queries.sql is absent or
\* unreadable, the error is reported once and the command has returned:
\* nothing was submitted to the store, no summary printed, no file written.
C7_FatalErrorsReturn ==
    FatalEchoes # {} =>
        /\ Cardinality(FatalEchoes) = 1
        /\ pc = "returned"
        /\ Submitted = <<>>
        /\ all_results = <<>>
        /\ ~SummaryPrinted
        /\ ~file.written

C7_Witness ==
    /\ pc = "returned"
    /\ console # <<>>
    /\ console[Len(console)].tag = "error reading queries.sql"
    /\ Submitted = <<>>

IsConnectOp(o) == o.op = "connect"

\* C8: a run that acquired the connection acquired it once and has closed
\* it when the command returns, on every exit path; the close is the last
\* thing done, after the last statement and after the file write.
C8_ClosedOnEveryExit ==
    (pc = "returned" /\ Len(SelectSeq(store_log, IsConnectOp)) > 0) =>
        /\ Len(SelectSeq(store_log, IsConnectOp)) = 1
        /\ conn = "closed"
        /\ store_log[Len(store_log)].op = "close"
        /\ output_file # "unread"

(***************************************************************************)
(* Claims about the splitter                                               *)
(***************************************************************************)
SplitStart == [in_comment |-> FALSE, current_query |-> <<>>, queries |-> <<>>]

\* the splitter state after the given lines
RECURSIVE SplitFrom(_, _)
SplitFrom(st, ls) ==
    IF ls = <<>> THEN st ELSE SplitFrom(SplitStep(st, Head(ls)), Tail(ls))

IsDashLine(raw) == StartsWith(Strip(raw), <<"-", "-">>)

NotDashLine(raw) == ~IsDashLine(raw)

\* C9: a line read while the splitter is inside an open block comment
\* leaves the statements and the buffer as they are.
C9_CommentLinesInert ==
    [][(pc = "split" /\ in_comment /\ idx' = idx + 1) =>
           (queries' = queries /\ current_query' = current_query)]_vars

\* the line just read ends with ';', is no '--' line, neither opens nor
\* closes a comment, and was read inside a block comment
C9_Witness ==
    /\ pc = "split"
    /\ idx >= 3
    /\ SplitFrom(SplitStart, SubSeq(lines, 1, idx - 2)).in_comment
    /\ EndsWith(Strip(lines[idx - 1]), <<";">>)
    /\ ~IsDashLine(lines[idx - 1])
    /\ ~StartsWith(Strip(lines[idx - 1]), <<"/", "*">>)
    /\ in_comment
    /\ queries = <<>>
    /\ current_query = <<>>

\* C10: '--' lines count for nothing: while splitting, the splitter state
\* is the one the lines read so far give with the '--' lines taken out,
\* and the statements found are those of the script without its '--' lines.
C10_DashLinesInert ==
    /\ pc = "split" =>
          SplitState = SplitFrom(SplitStart, SelectSeq(SubSeq(lines, 1, idx - 1),
                                                       NotDashLine))
    /\ pc = "loop" =>
          queries = LET st == SplitFrom(SplitStart, SelectSeq(lines, NotDashLine))
                    IN  IF Strip(st.current_query) # <<>>
                        THEN Append(st.queries, Strip(st.current_query))
                        ELSE st.queries

\* a '--' line ending with ';' between the two lines of one statement
C10_Witness ==
    /\ pc = "loop"
    /\ Len(lines) = 3
    /\ IsDashLine(lines[2])
    /\ EndsWith(Strip(lines[2]), <<";">>)
    /\ queries = << <<"b", " ", "a", ";">> >>

\* the line the splitter reads next, trimmed
NextLine == Strip(lines[idx])

\* the splitter reads a line in this step
ReadsLine == pc = "split" /\ idx <= Len(lines) /\ idx' = idx + 1

\* C11: in in-comment mode, a line that ends with '*/' switches the splitter
\* back to normal mode and is discarded, whatever it starts with.
C11_FirstCloserCloses ==
    [][(ReadsLine /\ in_comment /\ EndsWith(NextLine, <<"*", "/">>)) =>
           (/\ in_comment' = FALSE
            /\ queries' = queries
            /\ current_query' = current_query)]_vars

\* the text the buffer holds once the line has been appended to it
Appended(buf, line) == buf \o line \o <<" ">>

\* C12: in normal mode every non-empty line that is no '--' line and does
\* not begin with '/*' is appended to the buffer with a separating space:
\* the buffer grows by it, or the statement it completes is emitted.
C12_NormalLinesAppended ==
    [][(/\ ReadsLine
        /\ ~in_comment
        /\ NextLine # <<>>
        /\ ~StartsWith(NextLine, <<"-", "-">>)
        /\ ~StartsWith(NextLine, <<"/", "*">>)) =>
           (\/ /\ current_query' = Appended(current_query, NextLine)
               /\ queries' = queries
            \/ /\ current_query' = <<>>
               /\ queries' = Append(queries, Strip(Appended(current_query, NextLine))))]_vars

\* the splitter has finished (lines 499-500 have run)
SplitDone == pc # "split" /\ idx > Len(lines)

\* C13: what the buffer holds at end of input without a closing ';' is
\* emitted as the last statement, after the terminated ones; every
\* statement before the last ends with ';', and so does every statement
\* emitted while lines are still being read.
C13_TrailingStatement ==
    /\ pc = "split" => \A k \in 1..Len(queries) : EndsWith(queries[k], <<";">>)
    /\ SplitDone =>
          /\ \A k \in 1..(Len(queries) - 1) : EndsWith(queries[k], <<";">>)
          /\ IF Strip(current_query) # <<>>
             THEN /\ Len(queries) >= 1
                  /\ queries[Len(queries)] = Strip(current_query)
                  /\ ~EndsWith(queries[Len(queries)], <<";">>)
             ELSE \A k \in 1..Len(queries) : EndsWith(queries[k], <<";">>)

C13_Witness ==
    /\ SplitDone
    /\ Len(queries) = 2
    /\ EndsWith(queries[1], <<";">>)
    /\ queries[2] = <<"b">>
    /\ current_query = <<"b", " ">>

\* C14: no statement of the splitter is empty or whitespace-only, and none
\* has surrounding whitespace, so the test of line 510 is false for every
\* statement and every statement keeps its position.
C14_NoEmptyStatement ==
    \A k \in 1..Len(queries) :
        /\ Strip(queries[k]) # <<>>
        /\ Strip(queries[k]) = queries[k]
        /\ ~EmptyQuery(queries[k])

\* a script with a whitespace-only line, a lone ';' and nothing left over
C14_Witness ==
    /\ SplitDone
    /\ \E k \in 1..Len(lines) : lines[k] # <<>> /\ Strip(lines[k]) = <<>>
    /\ \E k \in 1..Len(queries) : queries[k] = <<";">>
    /\ Strip(current_query) = <<>>

\* whether the splitter is inside a block comment when it reads line k, by
\* the rules of the comment syntax: empty and '--' lines change nothing, a
\* line beginning with '/*' opens, another line ending with '*/' closes
RECURSIVE InCommentAt(_)
InCommentAt(k) ==
    IF k = 1 THEN FALSE
    ELSE LET line == Strip(lines[k - 1]) IN
         IF line = <<>> \/ StartsWith(line, <<"-", "-">>) THEN InCommentAt(k - 1)
         ELSE IF StartsWith(line, <<"/", "*">>) THEN TRUE
         ELSE IF EndsWith(line, <<"*", "/">>) THEN FALSE
         ELSE InCommentAt(k - 1)

\* line k contributes to a statement: it is not empty, no '--' line, no
\* line that opens or closes a block comment, and not inside one
Contributes(k) ==
    LET line == Strip(lines[k]) IN
    /\ line # <<>>
    /\ ~StartsWith(line, <<"-", "-">>)
    /\ ~StartsWith(line, <<"/", "*">>)
    /\ ~EndsWith(line, <<"*", "/">>)
    /\ ~InCommentAt(k)

TerminatorLines(n) ==
    {k \in 1..n : Contributes(k) /\ Strip(lines[k])[Len(Strip(lines[k]))] = ";"}

\* C15: the number of statements is the number of contributing lines that
\* end with ';', plus one when unterminated content is left at the end; a
\* ';' elsewhere in a line closes nothing.
C15_StatementCount ==
    /\ pc = "split" => Len(queries) = Cardinality(TerminatorLines(idx - 1))
    /\ SplitDone =>
          Len(queries) = Cardinality(TerminatorLines(Len(lines)))
                           + (IF Strip(current_query) # <<>> THEN 1 ELSE 0)

\* a line with ';' inside, one with ';' at its end, one left unterminated
C15_Witness ==
    /\ SplitDone
    /\ lines = << <<"a", ";", "b">>, <<"a", ";">>, <<"b">> >>
    /\ queries = << <<"a", ";", "b", " ", "a", ";">>, <<"b">> >>

\* the statements that executed and whose fetch raised
\* sqlite3.OperationalError
NothingFetched ==
    {k \in 1..Len(ExecOps) :
        LET p == ExecPos(k) IN
        /\ store_log[p].res.kind = "ok"
        /\ FetchFollows(p)
        /\ store_log[p + 1].res.kind = "OperationalError"}

\* C16: a statement that executes and whose fetch raises
\* sqlite3.OperationalError is recorded with rows 'N/A' and no columns, which
\* is no failure, and the summary counts it as successful.
C16_NothingToFetchSucceeds ==
    LET nothing == NothingFetched IN
    /\ \A k \in nothing :
          /\ k <= Len(all_results)
          /\ all_results[k].rows = RowsNA
          /\ all_results[k].columns = <<>>
          /\ "error" \notin DOMAIN all_results[k]
          /\ ~IsError(all_results[k])
    /\ PastLoop =>
          /\ summary.successful >= Cardinality(nothing)
          /\ summary.failed <= Len(queries) - Cardinality(nothing)

C16_Witness ==
    /\ PastLoop
    /\ Len(queries) = 2
    /\ NothingFetched = {1, 2}
    /\ summary.successful = 2
    /\ summary.failed = 0

\* fetchall() of a statement without result set: no rows, no description
NoResultSet == [kind |-> "rows", rows |-> <<>>, description |-> <<>>, msg |-> ""]

\* fetchall() raising sqlite3.OperationalError
NothingToFetch ==
    [kind |-> "OperationalError", rows |-> <<>>, description |-> <<>>,
     msg |-> "nothing to fetch"]

\* the statements that executed and returned a result set with columns and
\* zero rows
ZeroRows ==
    {k \in 1..Len(ExecOps) :
        LET p == ExecPos(k) IN
        /\ store_log[p].res.kind = "ok"
        /\ FetchFollows(p)
        /\ store_log[p + 1].res.kind = "rows"
        /\ store_log[p + 1].res.rows = <<>>
        /\ store_log[p + 1].res.description # <<>>}

\* C17 as stated: a result set with zero rows is recorded with row count 0
\* and the column names of the result, and its record differs from the one
\* of a statement without result set.
C17_ZeroRowsKeepColumns ==
    \A k \in ZeroRows :
        /\ all_results[k].rows = RowsInt(0)
        /\ all_results[k].columns = FetchAnswer(k).description
        /\ all_results[k] # FetchRecord(k, queries[k], NoResultSet)

\* C17, amended: a result set with zero rows is recorded as a success with
\* row count 0 and an empty column list; the record is the one of a
\* statement without result set whose fetchall() returns [], and it differs
\* from the 'N/A' record of a fetch that raises sqlite3.OperationalError.
C17_ZeroRowsRecord ==
    \A k \in ZeroRows :
        /\ all_results[k].rows = RowsInt(0)
        /\ all_results[k].columns = <<>>
        /\ ~IsError(all_results[k])
        /\ RecordedOutcome(all_results[k]).variant = "Rows"
        /\ all_results[k] = FetchRecord(k, queries[k], NoResultSet)
        /\ all_results[k] # FetchRecord(k, queries[k], NothingToFetch)

\* a zero-row result set, then a statement without result set: same record
\* apart from the sequence number
C17_Witness ==
    /\ PastLoop
    /\ Len(queries) = 2
    /\ ZeroRows = {1}
    /\ ExecOps[2].res.kind = "ok"
    /\ HasFetch(2)
    /\ FetchAnswer(2) = NoResultSet
    /\ all_results[1].rows = all_results[2].rows
    /\ all_results[1].columns = all_results[2].columns

IsTable(e) == e.tag = "table"

\* the tables echoed, in console order
Tables == SelectSeq(console, IsTable)

IsRowsFetch(o) == o.op = "fetchall" /\ o.res.kind = "rows" /\ o.res.rows # <<>>

\* the non-empty results the store returned, in the order it returned them
RowFetches == SelectSeq(store_log, IsRowsFetch)

\* the statements that executed and returned at least one row
WithRows ==
    {k \in 1..Len(ExecOps) :
        LET p == ExecPos(k) IN
        /\ store_log[p].res.kind = "ok"
        /\ FetchFollows(p)
        /\ store_log[p + 1].res.kind = "rows"
        /\ store_log[p + 1].res.rows # <<>>}

\* C18: in verbose mode one table is shown per non-empty result, holding the
\* whole result when it has at most 5 rows and its first 3 rows when it has
\* 6 or more, so never more than 5 rows; the recorded row count is the size
\* of the full result.
C18_PreviewBounded ==
    /\ verbose =>
          LET tables == Tables
              fetches == RowFetches
          IN
          /\ Len(tables) = Len(fetches)
          /\ \A k \in 1..Len(tables) :
                LET full == fetches[k].res.rows
                    shown == tables[k].rows
                IN /\ Len(full) <= 5 => shown = full
                   /\ Len(full) >= 6 => shown = SubSeq(full, 1, 3)
                   /\ Len(shown) <= 5
    /\ \A k \in WithRows :
          all_results[k].rows = RowsInt(Len(FetchAnswer(k).rows))

\* verbose: a result of 5 rows shown whole, then one of 6 rows shown as its
\* first 3 and recorded with 6
C18_Witness ==
    /\ verbose
    /\ PastLoop
    /\ WithRows = {1, 2}
    /\ Len(FetchAnswer(1).rows) = 5
    /\ Len(FetchAnswer(2).rows) = 6
    /\ Len(Tables) = 2
    /\ Len(Tables[1].rows) = 5
    /\ Tables[2].rows = <<1, 2, 3>>
    /\ all_results[2].rows = RowsInt(6)

\* the write of the output file fails in this step
WriteFails == pc = "save" /\ output_file' = "bad path"

\* C19: a failed write of the output file is reported on the console and
\* changes neither the recorded outcomes nor the counters, which are those
\* the summary computed before any file was opened, as in a run without
\* output path, whatever the write left on disk; the command then closes
\* the connection and returns.
C19_WriteFailureHarmless ==
    /\ [][WriteFails =>
              /\ all_results' = all_results
              /\ summary' = summary
              /\ console' = Append(console, Echo("error saving results", 0, <<>>))
              /\ pc' = "close"]_vars
    /\ [](output_file = "bad path" =>
              /\ summary = SummaryOf(all_results, queries)
              /\ Len(all_results) = Len(queries)
              /\ pc \in {"close", "returned"}
              /\ pc = "close" => ENABLED Close
              /\ pc = "returned" => conn = "closed")

C19_Witness ==
    /\ output_file = "bad path"
    /\ pc = "returned"
    /\ conn = "closed"
    /\ summary.successful = 1
    /\ summary.failed = 1
    /\ console[Len(console)].tag = "error saving results"

IsQueryLine(l) == l.tag = "Query"

IsSQLLine(l) == l.tag = "SQL"

IsStatusLine(l) == l.tag = "Status"

IsInfoLine(l) == l.tag \in {"Results", "Error"}

IsRuleLine(l) == l.tag = "rule"

IsSuccessLine(l) == l.tag = "Status" /\ l.text = "SUCCESS"

IsFailedLine(l) == l.tag = "Status" /\ l.text = "FAILED"

\* the line that opens the k-th block of the file
BlockStart(k) ==
    CHOOSE p \in DOMAIN file.lines :
        /\ IsQueryLine(file.lines[p])
        /\ Cardinality({q \in 1..p : IsQueryLine(file.lines[q])}) = k

\* C20: after a write that succeeded the file holds the header and then one block per recorded
\* outcome, in statement order: the sequence number, the statement text, the
\* marker SUCCESS when the store reported no error and FAILED otherwise, the
\* row information of a success or the error message of a failure, and the
\* delimiter.  The SUCCESS and FAILED markers are as many as the summary
\* counts, and without statements the file is the header alone.
C20_FileBlocks ==
    (output_file = "path" /\ file.written) =>
        LET L == file.lines
            n == Len(all_results)
        IN /\ SubSeq(L, 1, 2) = <<[tag |-> "header"], [tag |-> "rule"]>>
           /\ Len(SelectSeq(L, IsQueryLine)) = n
           /\ Len(SelectSeq(L, IsSQLLine)) = n
           /\ Len(SelectSeq(L, IsStatusLine)) = n
           /\ Len(SelectSeq(L, IsInfoLine)) = n
           /\ Len(SelectSeq(L, IsRuleLine)) = n + 1
           /\ \A k \in 1..n :
                 LET p == BlockStart(k)
                     r == all_results[k]
                 IN /\ k > 1 => BlockStart(k - 1) < p
                    /\ L[p] = [tag |-> "Query", n |-> k]
                    /\ L[p + 1] = [tag |-> "SQL", text |-> r.query]
                    /\ L[p + 2].tag = "Status"
                    /\ L[p + 2].text = "SUCCESS" <=> ~StoreError(k)
                    /\ L[p + 2].text = "FAILED" <=> StoreError(k)
                    /\ StoreError(k) =>
                          /\ L[p + 3] = [tag |-> "Error", msg |-> r.error]
                          /\ L[p + 4] = [tag |-> "rule"]
                    /\ ~StoreError(k) =>
                          /\ L[p + 3] = [tag |-> "Results", rows |-> r.rows]
                          /\ IF r.columns # <<>>
                             THEN /\ L[p + 4] = [tag |-> "Columns", cols |-> r.columns]
                                  /\ L[p + 5] = [tag |-> "rule"]
                             ELSE L[p + 4] = [tag |-> "rule"]
           /\ Len(SelectSeq(L, IsSuccessLine)) = summary.successful
           /\ Len(SelectSeq(L, IsFailedLine)) = summary.failed
           /\ n = 0 => L = <<[tag |-> "header"], [tag |-> "rule"]>>

\* a file with a FAILED block and a SUCCESS block that names columns
C20_Witness ==
    /\ output_file = "path"
    /\ file.written
    /\ Len(all_results) = 2
    /\ StoreError(1)
    /\ ~StoreError(2)
    /\ all_results[2].columns # <<>>
    /\ Len(SelectSeq(file.lines, IsFailedLine)) = 1
    /\ Len(SelectSeq(file.lines, IsSuccessLine)) = 1
    /\ Len(file.lines) = 13

\* the numbers of the lines that contribute to a statement, in script order
ContributingLines == SelectSeq([k \in 1..Len(lines) |-> k], Contributes)

\* the contributing lines cut after every line that ends with ';': each
\* line number is in exactly one group, groups and their members in script
\* order; acc holds the closed groups and cur the open one
RECURSIVE GroupLines(_, _, _)
GroupLines(ks, cur, acc) ==
    IF ks = <<>> THEN (IF cur = <<>> THEN acc ELSE Append(acc, cur))
    ELSE LET line == Strip(lines[Head(ks)]) IN
         IF line[Len(line)] = ";"
         THEN GroupLines(Tail(ks), <<>>, Append(acc, Append(cur, Head(ks))))
         ELSE GroupLines(Tail(ks), Append(cur, Head(ks)), acc)

StatementLines == GroupLines(ContributingLines, <<>>, <<>>)

\* the texts joined by single spaces
RECURSIVE JoinSpace(_)
JoinSpace(ts) ==
    IF ts = <<>> THEN <<>>
    ELSE IF Len(ts) = 1 THEN ts[1]
    ELSE ts[1] \o <<" ">> \o JoinSpace(Tail(ts))

\* the trimmed lines of a group, joined
TextOf(group) == JoinSpace([j \in 1..Len(group) |-> Strip(lines[group[j]])])

\* C21: the statements are the groups of contributing lines, so every
\* contributing line is in exactly one statement and lines and statements
\* keep script order; the text of a statement is its trimmed lines joined
\* by single spaces, without leading or trailing whitespace.
C21_LinesPartitioned ==
    SplitDone =>
        /\ Len(queries) = Len(StatementLines)
        /\ \A k \in 1..Len(queries) :
              /\ queries[k] = TextOf(StatementLines[k])
              /\ queries[k] = Strip(queries[k])

\* a statement of two lines, then a statement of one line
C21_Witness ==
    /\ SplitDone
    /\ lines = << <<"b">>, <<" ", "b", ";", " ">>, <<"a", ";", "b">> >>
    /\ StatementLines = << <<1, 2>>, <<3>> >>
    /\ queries = << <<"b", " ", "b", ";">>, <<"a", ";", "b">> >>

\* a line before line k starts with '/*' and no line after it and before
\* line k ends with '*/'
OpenSince(k) ==
    \E j \in 1..(k - 1) :
        /\ j <= Len(lines)
        /\ StartsWith(Strip(lines[j]), <<"/", "*">>)
        /\ \A m \in (j + 1)..(k - 1) : ~EndsWith(Strip(lines[m]), <<"*", "/">>)

\* the splitter is at the end of input (lines 499-500 run next)
AtEndOfInput == pc = "split" /\ idx > Len(lines)

\* C22: a line that starts with '/*' sets in-comment mode and is discarded,
\* also when it ends with '*/'; every line read after it, up to and
\* including the first later line that ends with '*/', is discarded; when
\* the input ends before such a line, the content buffered before the
\* comment is emitted as the last statement.
C22_OpenerAlwaysOpens ==
    /\ [][(ReadsLine /\ StartsWith(NextLine, <<"/", "*">>)) =>
              (/\ in_comment' = TRUE
               /\ queries' = queries
               /\ current_query' = current_query)]_vars
    /\ [][(ReadsLine /\ OpenSince(idx)) =>
              (/\ in_comment
               /\ queries' = queries
               /\ current_query' = current_query)]_vars
    /\ [][(AtEndOfInput /\ OpenSince(idx) /\ pc' # "split") =>
              (queries' = IF Strip(current_query) # <<>>
                          THEN Append(queries, Strip(current_query))
                          ELSE queries)]_vars

\* content, a one-line block comment, a statement: the statement is
\* discarded and the content before the comment is emitted
C22_Witness ==
    /\ SplitDone
    /\ lines = << <<"b">>, <<"/", "*", "c", "*", "/">>, <<"a", ";">> >>
    /\ in_comment
    /\ queries = << <<"b">> >>

\* the record of the k-th statement as the script and the answers of the
\* store to that statement determine it, whatever the verbosity
RecordOf(k) ==
    LET q == Truncate(queries[k])
        p == ExecPos(k)
        e == store_log[p].res
        f == store_log[p + 1].res
    IN IF e.kind # "ok"
       THEN [query_num |-> k, query |-> q, rows |-> RowsERROR, columns |-> <<>>,
             error |-> e.msg]
       ELSE IF f.kind = "Exception"
       THEN [query_num |-> k, query |-> q, rows |-> RowsERROR, columns |-> <<>>,
             error |-> f.msg]
       ELSE IF f.kind = "OperationalError"
       THEN [query_num |-> k, query |-> q, rows |-> RowsNA, columns |-> <<>>]
       ELSE IF f.rows = <<>>
       THEN [query_num |-> k, query |-> q, rows |-> RowsInt(0), columns |-> <<>>]
       ELSE [query_num |-> k, query |-> q, rows |-> RowsInt(Len(f.rows)),
             columns |-> f.description]

\* the block of the file for a statement with the record r
BlockOf(r) ==
    <<[tag |-> "Query", n |-> r.query_num], [tag |-> "SQL", text |-> r.query]>>
    \o (IF r.rows = RowsERROR
        THEN <<[tag |-> "Status", text |-> "FAILED"],
               [tag |-> "Error", msg |-> r.error]>>
        ELSE <<[tag |-> "Status", text |-> "SUCCESS"],
               [tag |-> "Results", rows |-> r.rows]>>
             \o (IF r.columns # <<>>
                 THEN <<[tag |-> "Columns", cols |-> r.columns]>>
                 ELSE <<>>))
    \o <<[tag |-> "rule"]>>

RECURSIVE BlocksOf(_)
BlocksOf(rs) == IF rs = <<>> THEN <<>> ELSE BlockOf(Head(rs)) \o BlocksOf(Tail(rs))

\* C23: the statements submitted, the recorded outcomes, the counters and
\* the content of the file are determined by the script and the answers of
\* the store alone (after a write that raised, the file holds a beginning
\* of that content): none of them depends on the verbosity flag, which
\* therefore changes console output only.
C23_VerboseConsoleOnly ==
    LET ops == ExecOps
        records == [k \in 1..Len(all_results) |-> RecordOf(k)]
        whole == <<[tag |-> "header"], [tag |-> "rule"]>> \o BlocksOf(records)
    IN
    /\ Len(ops) <= Len(queries)
    /\ Submitted = SubSeq(queries, 1, Len(ops))
    /\ Len(all_results) <= Len(ops)
    /\ all_results = records
    /\ PastLoop =>
          /\ Len(all_results) = Len(queries)
          /\ summary.failed =
                Cardinality({k \in 1..Len(queries) : records[k].rows = RowsERROR})
          /\ summary.successful =
                Cardinality({k \in 1..Len(queries) : records[k].rows # RowsERROR})
          /\ summary.total = Len(queries)
    /\ output_file = "path" =>
          /\ file.written
          /\ file.lines = whole
    /\ (output_file = "bad path" /\ file.written) =>
          /\ Len(file.lines) <= Len(whole)
          /\ file.lines = SubSeq(whole, 1, Len(file.lines))

\* a verbose run that showed a table of 3 rows for a result of 6 rows and
\* wrote the file
C23_Witness ==
    /\ verbose
    /\ output_file = "path"
    /\ file.written
    /\ Len(queries) = 2
    /\ StoreError(1)
    /\ 2 \in WithRows
    /\ Len(FetchAnswer(2).rows) = 6
    /\ Len(Tables) = 1
    /\ Len(Tables[1].rows) = 3
    /\ all_results[2].rows = RowsInt(6)

\* the positions of the log that hold the operation op
PositionsOf(op) == {p \in DOMAIN store_log : store_log[p].op = op}

\* C24: the store sees one connect, then one cursor, then only executions
\* and fetches on that cursor, each fetch right after the successful
\* execution of its statement, then at most the close, which is the last
\* operation: every statement of the run goes through the one cursor of the
\* one connection, and no commit is ever issued, before the close or at it.
C24_NeverCommits ==
    LET cursors == PositionsOf("cursor")
        fetches == PositionsOf("fetchall")
        closes == PositionsOf("close")
    IN
    /\ PositionsOf("commit") = {}
    /\ \A p \in DOMAIN store_log :
          store_log[p].op \in {"connect", "cursor", "execute", "fetchall", "close"}
    /\ PositionsOf("connect") = (IF store_log = <<>> THEN {} ELSE {1})
    /\ Cardinality(cursors) <= 1
    /\ \A p \in PositionsOf("execute") \cup fetches : \E c \in cursors : c < p
    /\ \A p \in fetches :
          /\ store_log[p - 1].op = "execute"
          /\ store_log[p - 1].res.kind = "ok"
          /\ store_log[p - 1].sql = store_log[p].sql
    /\ \A p \in closes : p = Len(store_log)
    /\ conn = "closed" <=> closes # {}
    /\ conn = "closed" =>
          \A p \in 2..(Len(store_log) - 1) :
              store_log[p].op \in {"cursor", "execute", "fetchall"}

\* a closed run in which a statement without result set (a write) was
\* followed by a statement that returned rows
C24_Witness ==
    /\ conn = "closed"
    /\ Len(queries) = 2
    /\ ExecOps[1].res.kind = "ok"
    /\ HasFetch(1)
    /\ FetchAnswer(1) = NoResultSet
    /\ 2 \in WithRows
    /\ Len(store_log) = 7
    /\ store_log[Len(store_log)].op = "close"

====
